---- MODULE Spec2Model ----
(***************************************************************************)
(* A model of the loop engine of devito/dle/backends/advanced.py: the      *)
(* passes _loop_fission, _loop_blocking, _ompize, _padding and             *)
(* _nontemporal_stores of DevitoRewriter / DevitoSpeculativeRewriter and   *)
(* the construction and pipeline of DevitoCustomRewriter, acting on a      *)
(* State (nodes, elemental_functions, arguments, flags).                   *)
(*                                                                         *)
(* The Iteration/Expression tree is a value: a node is a record whose      *)
(* field k names its class.  Python identifies nodes by object identity    *)
(* (the keys of every `mapper`); the model identifies a node by its path,  *)
(* <<t, c1, ..., cn>>: top-level tree t of state.nodes, then child indices.*)
(***************************************************************************)
EXTENDS Integers, Sequences, FiniteSets, TLC

VARIABLES
    state,      \* the State threaded through the passes
    input,      \* state.nodes as handed to the rewriter (never changes)
    params,     \* the rewriter's params, thresholds and platform capabilities
    runtime,    \* the values the block-size symbols take when the code runs
    rw,         \* the rewriter: [kind, status, passes, pc]
    last,       \* the last pass invocation: [pass, ran, before]
    log         \* diagnostics emitted through dle_warning

vars == <<state, input, params, runtime, rw, last, log>>

-----------------------------------------------------------------------------
(* Bounds of the model *)

MaxSize == 5
MaxBlock == 3
MaxExprs == 4
MaxCores == 2
MaxShape == 4
MaxTokens == 3
MaxThreshold == 3

-----------------------------------------------------------------------------
(* Symbolic expressions in loop limits: numbers, symbols, +, -, %.         *)

Num(n) == [e |-> "num", v |-> n]
Sym(s) == [e |-> "sym", v |-> s]
Add(a, b) == [e |-> "add", a |-> a, b |-> b]
Sub(a, b) == [e |-> "sub", a |-> a, b |-> b]
Mod(a, b) == [e |-> "mod", a |-> a, b |-> b]

(* a % b as the generated C code computes it (b > 0) *)
CMod(a, b) == IF a >= 0 THEN a % b ELSE 0 - ((0 - a) % b)

RECURSIVE Eval(_, _)
Eval(x, env) ==
    CASE x.e = "num" -> x.v
      [] x.e = "sym" -> env[x.v]
      [] x.e = "add" -> Eval(x.a, env) + Eval(x.b, env)
      [] x.e = "sub" -> Eval(x.a, env) - Eval(x.b, env)
      [] x.e = "mod" -> CMod(Eval(x.a, env), Eval(x.b, env))

-----------------------------------------------------------------------------
(* Iteration properties (devito.nodes) *)

PARALLEL == "parallel"
VECTOR == "vector"
SEQUENTIAL == "sequential"
ELEMENTAL == "elemental"
REMAINDER == "remainder"

Has(seq, x) == \E n \in 1..Len(seq) : seq[n] = x

(* Pragmas and header/footer text: records, NoPragma where absent *)
NoPragma == [p |-> "", n |-> 0]
Pragma(name, n) == [p |-> name, n |-> n]

(* Node classes *)

None == [k |-> "None"]
Denormals == [k |-> "Denormals"]
Expression(id, fn, promoted) ==
    [k |-> "Expression", id |-> id, fn |-> fn, promoted |-> promoted]
Iteration(nodes, dim, limits, offsets, properties, pragmas) ==
    [k |-> "Iteration", nodes |-> nodes, dim |-> dim, limits |-> limits,
     offsets |-> offsets, properties |-> properties, pragmas |-> pragmas]
List(header, body, footer) ==
    [k |-> "List", header |-> header, body |-> body, footer |-> footer]
Block(header, body) == [k |-> "Block", header |-> header, body |-> body]

is_Parallel(i) == Has(i.properties, PARALLEL)
is_Vectorizable(i) == Has(i.properties, VECTOR)
is_Remainder(i) == Has(i.properties, REMAINDER)

children(o) ==
    CASE o.k = "Iteration" -> o.nodes
      [] o.k \in {"List", "Block"} -> o.body
      [] OTHER -> <<>>

rebuild(o, ch) ==
    CASE o.k = "Iteration" -> [o EXCEPT !.nodes = ch]
      [] o.k \in {"List", "Block"} -> [o EXCEPT !.body = ch]
      [] OTHER -> o

(* The node at path p below node o (p relative to o). *)
RECURSIVE At(_, _)
At(o, p) == IF p = <<>> THEN o ELSE At(children(o)[Head(p)], Tail(p))

(* The node at a path <<t, ...>> of a sequence of top-level trees. *)
NodeAt(nodes, p) == At(nodes[Head(p)], Tail(p))

IsPrefix(p, q) == Len(p) <= Len(q) /\ SubSeq(q, 1, Len(p)) = p

(* The sequence f, each element computed once *)
Tup(f) ==
    LET len == Cardinality(DOMAIN f)
        F[n \in 0..len] == IF n = 0 THEN <<>> ELSE Append(F[n - 1], f[n])
    IN F[len]

Flatten(ss) ==
    LET len == Cardinality(DOMAIN ss)
        F[n \in 0..len] == IF n = 0 THEN <<>> ELSE F[n - 1] \o ss[n]
    IN F[len]

SelectIdx(seq, Test(_)) ==
    LET len == Cardinality(DOMAIN seq)
        F[n \in 0..len] ==
            IF n = 0 THEN <<>>
            ELSE LET x == seq[n]
                 IN IF Test(x) THEN Append(F[n - 1], x) ELSE F[n - 1]
    IN F[len]

-----------------------------------------------------------------------------
(* Visitors of devito.visitors and helpers of devito.dle *)

(* retrieve_iteration_tree: every maximal chain of nested Iterations of o, *)
(* outermost first, each Iteration given by its path; p is o's path.       *)
RECURSIVE retrieve_iteration_tree(_, _)
RECURSIVE SectionsOf(_, _, _)
SectionsOf(o, p, queue) ==
    LET q == IF o.k = "Iteration" THEN Append(queue, p) ELSE queue
        ch == children(o)
        sub == Flatten([n \in 1..Len(ch) |-> SectionsOf(ch[n], Append(p, n), q)])
    IN IF sub # <<>> THEN sub
       ELSE IF o.k = "Iteration" THEN <<q>> ELSE <<>>
retrieve_iteration_tree(o, p) == SectionsOf(o, p, <<>>)

(* FindNodes(cls).visit(nodes): paths of the nodes of class cls, in        *)
(* depth-first order.                                                      *)
RECURSIVE FindIn(_, _, _)
FindIn(o, p, cls) ==
    LET ch == children(o)
        here == IF o.k = cls THEN <<p>> ELSE <<>>
    IN here \o Flatten([n \in 1..Len(ch) |-> FindIn(ch[n], Append(p, n), cls)])
FindNodes(cls, nodes) ==
    Flatten([t \in 1..Len(nodes) |-> FindIn(nodes[t], <<t>>, cls)])

(* IsPerfectIteration: no Iteration sits below an Iteration that has       *)
(* several children.                                                       *)
RECURSIVE IsPerfectIteration(_)
IsPerfectIteration(o) ==
    \A n \in 1..Len(o.nodes) :
        o.nodes[n].k = "Iteration" =>
            Len(o.nodes) = 1 /\ IsPerfectIteration(o.nodes[n])

(* Transformer(mapper).visit(o): mapper maps paths to nodes; a node whose  *)
(* path is a key is replaced by the mapped node, or dropped when the       *)
(* mapped value is None; every other node is rebuilt from its visited      *)
(* children.  The result is None when o itself is dropped.                 *)
RECURSIVE Transformer(_, _, _)
Transformer(mapper, o, p) ==
    IF p \in DOMAIN mapper THEN mapper[p]
    ELSE LET ch == children(o)
             vis == Tup([n \in 1..Len(ch) |-> Transformer(mapper, ch[n], Append(p, n))])
         IN rebuild(o, SelectIdx(vis, LAMBDA v : v # None))

(* compose_nodes(loops + [body]): nest each Iteration into the previous    *)
(* one, the innermost holding body.                                        *)
RECURSIVE compose_nodes(_, _)
compose_nodes(loops, body) ==
    IF Len(loops) = 1 THEN [loops[1] EXCEPT !.nodes = body]
    ELSE [loops[1] EXCEPT !.nodes = <<compose_nodes(Tail(loops), body)>>]

-----------------------------------------------------------------------------
(* Ordered dictionaries (OrderedDict / dict): sequences of [key, val];     *)
(* setting an existing key keeps its position.                             *)

DictHas(d, key) == \E n \in 1..Len(d) : d[n].key = key
DictGet(d, key) == d[CHOOSE n \in 1..Len(d) : d[n].key = key].val
DictSet(d, key, val) ==
    IF DictHas(d, key)
    THEN Tup([n \in 1..Len(d) |-> IF d[n].key = key THEN [key |-> key, val |-> val] ELSE d[n]])
    ELSE Append(d, [key |-> key, val |-> val])
DictFn(d) == [key \in {d[n].key : n \in 1..Len(d)} |-> DictGet(d, key)]

-----------------------------------------------------------------------------
(* The State and the pass decorator (devito.dle.backends.common) *)

NewState(nodes) ==
    [nodes |-> nodes, elemental_functions |-> <<>>, arguments |-> <<>>, flags |-> {}]

(* A pass returns a partial update: `has` names the fields it sets. *)
Update(has, nodes, elemental_functions, arguments, flags) ==
    [has |-> has, nodes |-> nodes, elemental_functions |-> elemental_functions,
     arguments |-> arguments, flags |-> flags]
NoUpdate == Update({}, <<>>, <<>>, <<>>, {})

(* State.update: a field the pass does not set passes through unchanged;  *)
(* arguments and flags accumulate.                                         *)
StateUpdate(s, u) ==
    [nodes |-> IF "nodes" \in u.has THEN u.nodes ELSE s.nodes,
     elemental_functions |->
        IF "elemental_functions" \in u.has THEN u.elemental_functions
        ELSE s.elemental_functions,
     arguments |-> IF "arguments" \in u.has THEN s.arguments \o u.arguments
                   ELSE s.arguments,
     flags |-> IF "flags" \in u.has THEN s.flags \cup u.flags ELSE s.flags]

(* The flag under which each pass is recorded once applied. *)
FlagOf ==
    [fission |-> "fission", padding |-> "padding", blocking |-> "blocking",
     ntstores |-> "ntstores", openmp |-> "openmp", split |-> "split",
     denormals |-> "denormals", simd |-> "simd"]

(* dle_pass: a pass whose flag is already recorded is not invoked again. *)
Skipped(s, pass) == FlagOf[pass] \in s.flags
dle_pass(s, pass, u) == IF Skipped(s, pass) THEN s ELSE StateUpdate(s, u)

-----------------------------------------------------------------------------
(* Dimensions *)

Dimension(name, size) == [name |-> name, size |-> size]

(* "%s_block" % i.dim.name, and the symbol of the block dimension's size *)
BlockName == [i |-> "i_block", j |-> "j_block", k |-> "k_block"]
SizeName == [i_block |-> "i_block_size", j_block |-> "j_block_size",
             k_block |-> "k_block_size"]
symbolic_size(dim) == Sym(SizeName[dim.name])

TagNames == <<"tag0", "tag1", "tag2", "tag3">>
tagger(n) == TagNames[n + 1]

(* fold_blockable_tree / unfold_blocked_tree: folding joins adjacent      *)
(* perfect nests over the same dimensions and unfolding undoes it; the     *)
(* trees of this model hold no two adjacent nests over the same dimensions,*)
(* so nothing is folded.                                                   *)
fold_blockable_tree(node, exclude_innermost) == node
unfold_blocked_tree(node) == node

(* itertools.combinations(lo..hi, n): the n-subsets of positions, in       *)
(* lexicographic order.                                                    *)
RECURSIVE combinations(_, _, _)
combinations(lo, hi, n) ==
    IF n = 0 THEN << <<>> >>
    ELSE IF lo > hi THEN <<>>
    ELSE LET with == combinations(lo + 1, hi, n - 1)
         IN Tup([m \in 1..Len(with) |-> <<lo>> \o with[m]]) \o combinations(lo + 1, hi, n)

-----------------------------------------------------------------------------
(* DevitoRewriter._loop_blocking *)

(* The Iterations of a tree that blocking selects (lines 133-135). *)
BlockableIterations(nodes, tree, exclude_innermost) ==
    SelectIdx(tree, LAMBDA p :
        /\ is_Parallel(NodeAt(nodes, p))
        /\ (exclude_innermost => ~is_Vectorizable(NodeAt(nodes, p))))

(* Lines 153-160: the Iteration over blocks of Iteration i, block          *)
(* dimension dim.                                                          *)
InterBlockFinish(i, dim) ==
    LET block_size == symbolic_size(dim)
        iter_size == Num(i.dim.size)
        finish == Sub(iter_size, Num(i.offsets[2]))
    IN Sub(finish, Mod(Sub(finish, Num(i.offsets[2])), block_size))

InterBlock(i, dim) ==
    LET start == Sub(i.limits[1], Num(i.offsets[1]))
    IN Iteration(<<>>, dim, <<start, InterBlockFinish(i, dim), symbolic_size(dim)>>,
                 <<0, 0>>, <<PARALLEL>>, <<>>)

(* Lines 163-167: the Iteration within a block. *)
IntraBlock(i, dim, TAG) ==
    LET start == Sym(dim.name)
        finish == Add(start, symbolic_size(dim))
    IN [i EXCEPT !.nodes = <<>>, !.limits = <<start, finish, Num(1)>>,
                 !.offsets = <<0, 0>>,
                 !.properties = i.properties \o <<TAG, ELEMENTAL>>]

(* Lines 172-175: the unit-step Iteration over the leftover region. *)
Remainder(i, dim) ==
    LET start == InterBlock(i, dim).limits[2]
        finish == Sub(Num(i.dim.size), Num(i.offsets[2]))
    IN [i EXCEPT !.nodes = <<>>, !.limits = <<start, finish, Num(1)>>,
                 !.offsets = <<0, 0>>]

(* Lines 186-195: the remainder tree of the combination c (positions of    *)
(* the selected Iterations; the code compares their dimensions).           *)
RemainderTree(inter_blocks, intra_blocks, remainders, c, TAG, body) ==
    LET cdims == {remainders[m].dim : m \in {c[x] : x \in 1..Len(c)}}
        n == Len(remainders)
        idx == Tup([m \in 1..n |-> m])
        first == SelectIdx(idx, LAMBDA m : remainders[m].dim \notin cdims)
        inter == Tup([m \in 1..Len(first) |->
                    [inter_blocks[first[m]] EXCEPT
                        !.properties = @ \o <<REMAINDER>>]])
        properties == <<REMAINDER, TAG, ELEMENTAL>>
        then == Tup([m \in 1..n |->
                    LET handle == IF intra_blocks[m].dim \in cdims
                                  THEN remainders[m] ELSE intra_blocks[m]
                    IN [handle EXCEPT !.properties = properties]])
    IN compose_nodes(inter \o then, body)

(* As RemainderTrees, the combination of all the dimensions left out *)
RemainderTrees_Proper(inter_blocks, intra_blocks, remainders, TAG, body) ==
    LET k == Len(remainders)
        cs == Flatten([n \in 1..(k - 1) |-> combinations(1, k, n)])
    IN Tup([m \in 1..Len(cs) |->
          RemainderTree(inter_blocks, intra_blocks, remainders, cs[m], TAG, body)])

(* Lines 183-195 *)
RemainderTrees(inter_blocks, intra_blocks, remainders, TAG, body) ==
    LET k == Len(remainders)
        cs == Flatten([n \in 1..k |-> combinations(1, k, n)])
    IN Tup([m \in 1..Len(cs) |->
          RemainderTree(inter_blocks, intra_blocks, remainders, cs[m], TAG, body)])

(* Lines 178-179 *)
BlockedTree(inter_blocks, intra_blocks, body) ==
    compose_nodes(inter_blocks \o intra_blocks, body)

(* blocked.setdefault(i, Dimension("%s_block" % i.dim.name)) for every     *)
(* selected Iteration, keyed by the Iteration (its path).                  *)
RECURSIVE SetDefaults(_, _, _)
SetDefaults(blocked, nodes, iterations) ==
    IF iterations = <<>> THEN blocked
    ELSE LET p == Head(iterations)
             d == Dimension(BlockName[NodeAt(nodes, p).dim.name], 0)
         IN SetDefaults(IF DictHas(blocked, p) THEN blocked ELSE DictSet(blocked, p, d),
                        nodes, Tail(iterations))

(* Lines 132-198: one Iteration tree; acc = [mapper, blocked]. *)
BlockOneTree(acc, nodes, tree, exclude_innermost) ==
    LET iterations == BlockableIterations(nodes, tree, exclude_innermost)
    IN IF iterations = <<>> THEN acc
       ELSE IF ~IsPerfectIteration(NodeAt(nodes, iterations[1])) THEN acc
       ELSE
        LET root == iterations[1]
            TAG == tagger(Len(acc.mapper))
            blocked == SetDefaults(acc.blocked, nodes, iterations)
            n == Len(iterations)
            it == Tup([m \in 1..n |-> NodeAt(nodes, iterations[m])])
            dim == Tup([m \in 1..n |-> DictGet(blocked, iterations[m])])
            inter_blocks == Tup([m \in 1..n |-> InterBlock(it[m], dim[m])])
            intra_blocks == Tup([m \in 1..n |-> IntraBlock(it[m], dim[m], TAG)])
            remainders == Tup([m \in 1..n |-> Remainder(it[m], dim[m])])
            body == it[n].nodes
            blocked_tree == BlockedTree(inter_blocks, intra_blocks, body)
            remainder_trees ==
                RemainderTrees(inter_blocks, intra_blocks, remainders, TAG, body)
        IN [mapper |-> DictSet(acc.mapper, root,
                               List(NoPragma, <<blocked_tree>> \o remainder_trees, NoPragma)),
            blocked |-> blocked]

RECURSIVE BlockTrees(_, _, _, _)
BlockTrees(acc, nodes, trees, exclude_innermost) ==
    IF trees = <<>> THEN acc
    ELSE BlockTrees(BlockOneTree(acc, nodes, Head(trees), exclude_innermost),
                    nodes, Tail(trees), exclude_innermost)

(* Lines 126-203: all top-level nodes from t on; acc = [processed, blocked] *)
RECURSIVE BlockNodes(_, _, _, _)
BlockNodes(acc, nodes, t, exclude_innermost) ==
    IF t > Len(nodes) THEN acc
    ELSE LET fold == fold_blockable_tree(nodes[t], exclude_innermost)
             r == BlockTrees([mapper |-> <<>>, blocked |-> acc.blocked], nodes,
                             retrieve_iteration_tree(fold, <<t>>), exclude_innermost)
             rebuilt == Transformer(DictFn(r.mapper), fold, <<t>>)
         IN BlockNodes([processed |-> Append(acc.processed, unfold_blocked_tree(rebuilt)),
                        blocked |-> r.blocked],
                       nodes, t + 1, exclude_innermost)

-----------------------------------------------------------------------------
(* Lines 205-235: the block shape and the runtime arguments *)

(* Block size values: a caller's number, the heuristic (a callable the    *)
(* emitter applies to the dimension size), or None.                        *)
IntValue(n) == [t |-> "int", v |-> n]
HeuristicValue == [t |-> "heuristic", v |-> 0]
NoneValue == [t |-> "none", v |-> 0]

ths == 8
heuristic(dim_size) == IF dim_size > ths THEN ths ELSE 1

(* params['blockshape']: None, a sequence of numbers, or a number *)
NoBlockshape == [t |-> "none", v |-> <<>>, n |-> 0]
SeqBlockshape(v) == [t |-> "seq", v |-> v, n |-> 0]
ScalarBlockshape(n) == [t |-> "scalar", v |-> <<>>, n |-> n]

(* `not blockshape` *)
Falsy(blockshape) ==
    \/ blockshape.t = "none"
    \/ blockshape.t = "seq" /\ blockshape.v = <<>>
    \/ blockshape.t = "scalar" /\ blockshape.n = 0

MoreEntries == "Provided 'blockshape' has more entries than blocked loops"
FewerEntries == "Provided 'blockshape' has fewer entries than blocked loops"

(* Lines 219-226: the diagnostics of a sequence with nitems entries *)
ShapeWarnings(nitems, nrequired) ==
    (IF nitems > nrequired THEN <<MoreEntries>> ELSE <<>>)
    \o (IF nitems < nrequired THEN <<FewerEntries>> ELSE <<>>)

(* As MissingEntry, falling back to the heuristic *)
MissingEntry_Heuristic == HeuristicValue

(* Lines 229-230: the value of a blocked Iteration the block shape has no  *)
(* entry for.                                                              *)
MissingEntry == NoneValue

(* Lines 210-230: blockshape[k] of the n-th blocked Iteration *)
BlockshapeOf(blockshape, n) ==
    IF Falsy(blockshape) THEN HeuristicValue
    ELSE IF blockshape.t = "seq"
         THEN IF n <= Len(blockshape.v) THEN IntValue(blockshape.v[n]) ELSE MissingEntry
         ELSE IF n = 1 THEN IntValue(blockshape.n) ELSE MissingEntry

BlockingArg(dim, iteration, value) ==
    [dim |-> dim, iteration |-> iteration, value |-> value]

(* Line 233 *)
BlockingArgs(blocked, blockshape) ==
    Tup([n \in 1..Len(blocked) |->
        BlockingArg(blocked[n].val, blocked[n].key, BlockshapeOf(blockshape, n))])

BlockingWarnings(blocked, blockshape) ==
    IF blocked # <<>> /\ ~Falsy(blockshape) /\ blockshape.t = "seq"
    THEN ShapeWarnings(Len(blockshape.v), Len(blocked))
    ELSE <<>>

(* As ExcludeInnermost, the negation forgotten *)
ExcludeInnermost_Unnegated(p) == p.blockinner

(* Line 122 *)
ExcludeInnermost(p) == ~p.blockinner

(* _loop_blocking(state): the update it returns *)
loop_blocking(s, p) ==
    LET r == BlockNodes([processed |-> <<>>, blocked |-> <<>>], s.nodes, 1,
                        ExcludeInnermost(p))
    IN IF r.blocked = <<>>
       THEN Update({"nodes"}, r.processed, <<>>, <<>>, {})
       ELSE Update({"nodes", "arguments", "flags"}, r.processed, <<>>,
                   BlockingArgs(r.blocked, p.blockshape), {"blocking"})

(* The Iterations blocked by _loop_blocking on s, as [key, val] *)
BlockedOf(s, p) ==
    BlockNodes([processed |-> <<>>, blocked |-> <<>>], s.nodes, 1,
               ExcludeInnermost(p)).blocked

-----------------------------------------------------------------------------
(* Execution of a tree (Iteration.ccode): an Iteration runs its body for  *)
(* its index from limits[0] - offsets[0], while below limits[1] -          *)
(* offsets[1], in steps of limits[2].  The result is the sequence of the   *)
(* Expression executions, each <<id, i, j, k>>.                            *)

DimNames == <<"i", "j", "k">>

RECURSIVE Exec(_, _)
RECURSIVE ExecSeq(_, _)
RECURSIVE ExecLoop(_, _, _, _, _)
Exec(o, env) ==
    CASE o.k = "Expression" -> << <<o.id, env.i, env.j, env.k>> >>
      [] o.k = "Iteration" ->
            ExecLoop(o, Eval(o.limits[1], env) - o.offsets[1],
                     Eval(o.limits[2], env) - o.offsets[2],
                     Eval(o.limits[3], env), env)
      [] o.k \in {"List", "Block"} -> ExecSeq(o.body, env)
      [] OTHER -> <<>>
ExecSeq(nodes, env) ==
    IF nodes = <<>> THEN <<>> ELSE Exec(Head(nodes), env) \o ExecSeq(Tail(nodes), env)
ExecLoop(o, x, hi, step, env) ==
    IF x >= hi THEN <<>>
    ELSE ExecSeq(o.nodes, [env EXCEPT ![o.dim.name] = x])
         \o ExecLoop(o, x + step, hi, step, env)

NoDuplicates(seq) == \A a, b \in 1..Len(seq) : a # b => seq[a] # seq[b]
Range(seq) == {seq[n] : n \in 1..Len(seq)}

-----------------------------------------------------------------------------
(* DevitoRewriter._loop_fission *)

(* devito.tools.grouper: consecutive groups of n items, the last one       *)
(* holding what is left.                                                   *)
RECURSIVE grouper(_, _)
grouper(seq, n) ==
    IF seq = <<>> THEN <<>>
    ELSE IF Len(seq) <= n THEN <<seq>>
    ELSE <<SubSeq(seq, 1, n)>> \o grouper(SubSeq(seq, n + 1, Len(seq)), n)

(* promote_scalar_expressions and the rebuilt Expression (lines 80-83) *)
Promoted(e) == [e EXCEPT !.promoted = TRUE]

is_Expression(o) == o.k = "Expression"

(* e.functions: the functions an Expression refers to *)
FunctionsOf(expressions) ==
    {expressions[n].fn : n \in 1..Len(expressions)} \ {[name |-> "none"]}

(* Lines 58-59: too few statements *)
TooFew(expressions, p) == Len(expressions) < p.max_fission

(* Lines 61-62: the body holds something that is no Expression *)
NotAllExpressions(expressions, candidate) == Len(expressions) # Len(candidate.nodes)

(* As GroupSize, the minimum count taken for the group size *)
GroupSize_Max(p) == p.max_fission

(* Line 90: the size of a group *)
GroupSize(p) == p.min_fission

(* Lines 51-93: one Iteration tree *)
FissionOneTree(mapper, nodes, tree, p) ==
    IF Len(tree) <= 1 THEN mapper
    ELSE
      LET candidate == NodeAt(nodes, tree[Len(tree)])
          expressions == SelectIdx(candidate.nodes, is_Expression)
          functions == FunctionsOf(expressions)
      IN IF TooFew(expressions, p) THEN mapper
         ELSE IF NotAllExpressions(expressions, candidate) THEN mapper
         ELSE IF functions = {} \/ expressions = <<>> THEN mapper
         ELSE IF \E f, g \in functions : f.last # g.last THEN mapper
         ELSE
           LET rebuilt == Tup([n \in 1..Len(expressions) |-> Promoted(expressions[n])])
               properties == candidate.properties \o <<ELEMENTAL>>
               groups == grouper(rebuilt, GroupSize(p))
               fissioned == Tup([n \in 1..Len(groups) |->
                               [candidate EXCEPT !.nodes = groups[n],
                                                 !.properties = properties]])
           IN DictSet(mapper, tree[Len(tree)], List(NoPragma, fissioned, NoPragma))

RECURSIVE FissionTrees(_, _, _, _)
FissionTrees(mapper, nodes, trees, p) ==
    IF trees = <<>> THEN mapper
    ELSE FissionTrees(FissionOneTree(mapper, nodes, Head(trees), p), nodes,
                      Tail(trees), p)

(* _loop_fission(state): the update it returns (no flag is set) *)
loop_fission(s, p) ==
    LET processed ==
          Tup([t \in 1..Len(s.nodes) |->
              Transformer(
                  DictFn(FissionTrees(<<>>, s.nodes,
                                      retrieve_iteration_tree(s.nodes[t], <<t>>), p)),
                  s.nodes[t], <<t>>)])
    IN Update({"nodes"}, processed, <<>>, <<>>, {})

-----------------------------------------------------------------------------
(* DevitoRewriter._simdize *)

(* self._compiler_decoration('ignore-deps'), as a tuple *)
IgnoreDeps == <<Pragma("ignore-deps", 0)>>

(* FindSymbols('symbolics'): the functions of the Expressions below o *)
RECURSIVE Symbolics(_)
Symbolics(o) ==
    IF o.k = "Expression"
    THEN IF o.fn.name # "none" THEN {o.fn} ELSE {}
    ELSE UNION {Symbolics(children(o)[n]) : n \in 1..Len(children(o))}

(* Lines 252-257: the functions whose last extent fills SIMD registers *)
Aligned(o, p) == {f.name : f \in {g \in Symbolics(o) : g.extent % p.simd_items = 0}}

(* Lines 258-263: the SIMD pragma of a vectorizable Iteration *)
SimdPragma(o, p) ==
    IF Aligned(o, p) # {}
    THEN [p |-> "simd-for-aligned", n |-> p.simd_items, names |-> Aligned(o, p)]
    ELSE Pragma("simd-for", 0)

(* Lines 249-264: every vectorizable Iteration gets the pragmas *)
RECURSIVE SimdMapper(_, _, _, _)
SimdMapper(mapper, nodes, paths, p) ==
    IF paths = <<>> THEN mapper
    ELSE LET i == NodeAt(nodes, Head(paths))
         IN SimdMapper(
              IF is_Vectorizable(i)
              THEN DictSet(mapper, Head(paths),
                           [i EXCEPT !.pragmas = @ \o IgnoreDeps \o <<SimdPragma(i, p)>>])
              ELSE mapper,
              nodes, Tail(paths), p)

(* Lines 245-266 *)
SimdDecorate(nodes, p) ==
    Tup([t \in 1..Len(nodes) |->
        Transformer(
            DictFn(SimdMapper(<<>>, nodes,
                              Flatten(retrieve_iteration_tree(nodes[t], <<t>>)), p)),
            nodes[t], <<t>>)])

(* _simdize(state): the update it returns (no flag is set) *)
simdize(s, p) ==
    Update({"nodes", "elemental_functions"}, SimdDecorate(s.nodes, p),
           SimdDecorate(s.elemental_functions, p), <<>>, {})

-----------------------------------------------------------------------------
(* DevitoSpeculativeRewriter._nontemporal_stores *)

NtStoresPragma == Pragma("ntstores", 0)
StoreFence == Pragma("storefence", 0)

(* Lines 410-415: the first parallel Iteration of every tree gets the      *)
(* fence as a footer.                                                      *)
RECURSIVE FenceMapper(_, _, _)
FenceMapper(mapper, nodes, trees) ==
    IF trees = <<>> THEN mapper
    ELSE LET par == SelectIdx(Head(trees), LAMBDA q : is_Parallel(NodeAt(nodes, q)))
         IN FenceMapper(
              IF par = <<>> THEN mapper
              ELSE DictSet(mapper, par[1],
                           List(NoPragma, <<NodeAt(nodes, par[1])>>, StoreFence)),
              nodes, Tail(trees))

(* Lines 417-421: every vectorizable Iteration gets the pragma as a header *)
RECURSIVE VectorMapper(_, _, _)
VectorMapper(mapper, nodes, paths) ==
    IF paths = <<>> THEN mapper
    ELSE VectorMapper(
           IF is_Vectorizable(NodeAt(nodes, Head(paths)))
           THEN DictSet(mapper, Head(paths),
                        List(NtStoresPragma, <<NodeAt(nodes, Head(paths))>>, NoPragma))
           ELSE mapper,
           nodes, Tail(paths))

(* Lines 407-424 *)
NtDecorate(nodes) ==
    Tup([t \in 1..Len(nodes) |->
        LET m1 == FenceMapper(<<>>, nodes, retrieve_iteration_tree(nodes[t], <<t>>))
            transformed == Transformer(DictFn(m1), nodes[t], <<t>>)
            m2 == VectorMapper(<<>>, <<transformed>>,
                               Flatten(retrieve_iteration_tree(transformed, <<1>>)))
        IN Transformer(DictFn(m2), transformed, <<1>>)])

(* As NtUnavailable, both capabilities having to be missing *)
NtUnavailable_Both(p) == ~p.ntstores /\ ~p.storefence

(* Line 404 *)
NtUnavailable(p) == ~p.ntstores \/ ~p.storefence

(* _nontemporal_stores(state): the update it returns *)
nontemporal_stores(s, p) ==
    IF NtUnavailable(p) THEN NoUpdate
    ELSE Update({"nodes", "elemental_functions", "flags"}, NtDecorate(s.nodes),
                NtDecorate(s.elemental_functions), <<>>, {"ntstores"})

-----------------------------------------------------------------------------
(* DevitoRewriter._ompize *)

(* filter_iterations(tree, key, stop='any'): the first run of consecutive  *)
(* Iterations satisfying key, key given as the set of those that do.       *)
RECURSIVE filter_iterations(_, _, _)
filter_iterations(tree, key, filtered) ==
    IF tree = <<>> THEN filtered
    ELSE IF Head(tree) \in key
         THEN filter_iterations(Tail(tree), key, Append(filtered, Head(tree)))
    ELSE IF filtered # <<>> THEN filtered
    ELSE filter_iterations(Tail(tree), key, filtered)

(* Line 288 *)
OmpKey(i) == is_Parallel(i) /\ ~is_Vectorizable(i)

(* Lines 286-289: the candidates of a tree, as paths *)
Candidates(nodes, tree) ==
    filter_iterations(tree, {q \in Range(tree) : OmpKey(NodeAt(nodes, q))}, <<>>)

(* As ParallelPragma, the core count compared with <= *)
ParallelPragma_Strict(nparallel, p) ==
    IF p.cores <= p.collapse \/ nparallel < 2
    THEN Pragma("for", 0)
    ELSE Pragma("collapse", nparallel)

(* Lines 296-301: the pragma of a root heading nparallel candidates *)
ParallelPragma(nparallel, p) ==
    IF p.cores < p.collapse \/ nparallel < 2
    THEN Pragma("for", 0)
    ELSE Pragma("collapse", nparallel)

(* FindSymbols('symbolics'): the names of the stack-resident functions of  *)
(* the Expressions below o.                                                *)
RECURSIVE StackSymbols(_)
StackSymbols(o) ==
    IF o.k = "Expression"
    THEN IF o.fn.name # "none" /\ o.fn.onstack THEN {o.fn.name} ELSE {}
    ELSE UNION {StackSymbols(children(o)[n]) : n \in 1..Len(children(o))}

(* Lines 286-307: acc = [mapper, pvt] *)
RECURSIVE OmpTrees(_, _, _, _)
OmpTrees(acc, nodes, trees, p) ==
    IF trees = <<>> THEN acc
    ELSE
      LET candidates == Candidates(nodes, Head(trees))
      IN IF candidates = <<>> THEN OmpTrees(acc, nodes, Tail(trees), p)
         ELSE
           LET root == NodeAt(nodes, candidates[1])
               parallel == ParallelPragma(Len(candidates), p)
               new == [root EXCEPT !.pragmas = @ \o <<parallel>>]
           IN OmpTrees([mapper |-> DictSet(acc.mapper, candidates[1], new),
                        pvt |-> acc.pvt \cup StackSymbols(NodeAt(nodes, Head(trees)[1]))],
                       nodes, Tail(trees), p)

(* Lines 281-282 *)
DenormalsMapper(nodes) ==
    LET denormals == FindNodes("Denormals", nodes)
    IN Tup([n \in 1..Len(denormals) |-> [key |-> denormals[n], val |-> None]])

(* As ParRegionBody, the remainder loops kept out of the region *)
ParRegionBody_NoRemainder(nodes, mapper) ==
    LET denormals == FindNodes("Denormals", nodes)
        values == SelectIdx([n \in 1..Len(mapper) |-> mapper[n].val],
                            LAMBDA v : v # None /\ ~is_Remainder(v))
    IN Tup([n \in 1..Len(denormals) |-> NodeAt(nodes, denormals[n])]) \o values

(* Lines 312-313: the parallel region *)
ParRegionBody(nodes, mapper) ==
    LET denormals == FindNodes("Denormals", nodes)
        values == SelectIdx([n \in 1..Len(mapper) |-> mapper[n].val],
                            LAMBDA v : v # None)
    IN Tup([n \in 1..Len(denormals) |-> NodeAt(nodes, denormals[n])]) \o values

ParRegion(nodes, acc) ==
    Block([p |-> "par-region", n |-> 0, private |-> acc.pvt],
          ParRegionBody(nodes, acc.mapper))

(* Lines 314-316: what each key is finally mapped to *)
Remap(v, par_region) ==
    IF v = None THEN None
    ELSE IF is_Remainder(v) THEN None ELSE par_region

OmpMapper(nodes, t, p) ==
    LET acc == OmpTrees([mapper |-> DenormalsMapper(nodes), pvt |-> {}], nodes,
                        retrieve_iteration_tree(nodes[t], <<t>>), p)
        par_region == ParRegion(nodes, acc)
    IN Tup([n \in 1..Len(acc.mapper) |->
          [key |-> acc.mapper[n].key, val |-> Remap(acc.mapper[n].val, par_region)]])

(* Lines 318-320 *)
OmpHandle(nodes, t, p) == Transformer(DictFn(OmpMapper(nodes, t, p)), nodes[t], <<t>>)

(* As ompize, a tree that comes back as it went in dropped as well *)
ompize_DropUntouched(s, p) ==
    LET handles == Tup([t \in 1..Len(s.nodes) |->
                        LET h == OmpHandle(s.nodes, t, p)
                        IN IF h = s.nodes[t] THEN None ELSE h])
    IN Update({"nodes"}, SelectIdx(handles, LAMBDA h : h # None), <<>>, <<>>, {})

(* _ompize(state): the update it returns *)
ompize(s, p) ==
    LET handles == Tup([t \in 1..Len(s.nodes) |-> OmpHandle(s.nodes, t, p)])
    IN Update({"nodes"}, SelectIdx(handles, LAMBDA h : h # None), <<>>, <<>>, {})

-----------------------------------------------------------------------------
(* DevitoSpeculativeRewriter._padding *)

(* 'p%s' % k.name *)
PaddedName ==
    [u |-> "pu", pu |-> "ppu", ppu |-> "pppu", pppu |-> "ppppu",
     v |-> "pv", pv |-> "ppv", ppv |-> "pppv", pppv |-> "ppppv"]

(* devito.tools.roundm: x rounded up to a multiple of y *)
roundm(x, y) == ((x + y - 1) \div y) * y

(* FindSymbols('symbolics-writes'): the functions written below o, in      *)
(* order of appearance.                                                    *)
RECURSIVE Writes(_)
Writes(o) ==
    IF o.k = "Expression"
    THEN IF o.fn.name = "none" THEN <<>> ELSE <<o.fn>>
    ELSE Flatten([n \in 1..Len(children(o)) |-> Writes(children(o)[n])])

(* Lines 353-359: the functions of a node that are padded *)
PaddingCandidates(node) ==
    LET handle == Writes(node)
    IN IF handle = <<>> THEN <<>>
       ELSE LET ranks == {handle[n].rank : n \in 1..Len(handle)}
                top == CHOOSE r \in ranks : \A q \in ranks : q <= r
                first == CHOOSE n \in 1..Len(handle) :
                            /\ handle[n].rank = top
                            /\ \A m \in 1..(n - 1) : handle[m].rank # top
            IN IF top = 0 THEN <<>>
               ELSE SelectIdx(handle, LAMBDA f : f.extent = handle[first].extent)

(* Lines 374-381: the padded buffer of function f *)
PaddedFunction(f, simd_items) ==
    [f EXCEPT !.name = PaddedName[f.name], !.extent = roundm(f.extent, simd_items),
              !.symbolic = FALSE]

(* Lines 347-381: the mapper, over all nodes *)
RECURSIVE PadAll(_, _, _)
PadAll(mapper, fs, simd_items) ==
    IF fs = <<>> THEN mapper
    ELSE PadAll(DictSet(mapper, Head(fs), PaddedFunction(Head(fs), simd_items)),
                Tail(fs), simd_items)

PaddingMapper(nodes, simd_items) ==
    PadAll(<<>>, Flatten([t \in 1..Len(nodes) |-> PaddingCandidates(nodes[t])]),
           simd_items)

(* SubstituteExpression(mapper).visit(o) *)
RECURSIVE SubstituteExpression(_, _)
SubstituteExpression(mapper, o) ==
    IF o.k = "Expression"
    THEN IF DictHas(mapper, o.fn) THEN [o EXCEPT !.fn = DictGet(mapper, o.fn)] ELSE o
    ELSE rebuild(o, Tup([n \in 1..Len(children(o)) |->
                        SubstituteExpression(mapper, children(o)[n])]))

(* copy_arrays(mapper, reverse): one loop per pair copying v = k when      *)
(* reverse, else k = v.                                                    *)
copy_arrays(mapper, reverse) ==
    Tup([n \in 1..Len(mapper) |->
        Iteration(<<Expression(0, IF reverse THEN mapper[n].val ELSE mapper[n].key,
                               FALSE)>>,
                  Dimension(mapper[n].key.last, mapper[n].key.extent),
                  <<Num(0), Num(mapper[n].key.extent), Num(1)>>, <<0, 0>>, <<>>, <<>>)])

(* _padding(state): the update it returns (no flag is set) *)
padding(s, p) ==
    LET mapper == PaddingMapper(s.nodes, p.simd_items)
        processed == Tup([t \in 1..Len(s.nodes) |-> SubstituteExpression(mapper, s.nodes[t])])
        symbolic == SelectIdx(mapper, LAMBDA kv : kv.key.symbolic)
    IN Update({"nodes"},
              copy_arrays(symbolic, TRUE) \o processed \o copy_arrays(symbolic, FALSE),
              <<>>, <<>>, {})

-----------------------------------------------------------------------------
(* BasicRewriter._avoid_denormals and _create_elemental_functions *)

avoid_denormals(s) == Update({"nodes"}, <<Denormals>> \o s.nodes, <<>>, <<>>, {})

(* The outermost Iterations marked ELEMENTAL become elemental functions,   *)
(* each replaced by a call.                                                *)
IsElemental(o) == o.k = "Iteration" /\ Has(o.properties, ELEMENTAL)
ElementalRoots(nodes) ==
    LET all == SelectIdx(FindNodes("Iteration", nodes),
                         LAMBDA q : IsElemental(NodeAt(nodes, q)))
    IN SelectIdx(all, LAMBDA q :
          ~\E n \in 1..Len(all) : all[n] # q /\ IsPrefix(all[n], q))
create_elemental_functions(s) ==
    LET roots == ElementalRoots(s.nodes)
        mapper == [q \in Range(roots) |->
                      [k |-> "Call", target |-> NodeAt(s.nodes, q).dim.name]]
    IN Update({"nodes", "elemental_functions"},
              Tup([t \in 1..Len(s.nodes) |-> Transformer(mapper, s.nodes[t], <<t>>)]),
              Tup([n \in 1..Len(roots) |-> NodeAt(s.nodes, roots[n])]), <<>>, {})

-----------------------------------------------------------------------------
(* DevitoCustomRewriter.__init__ *)

(* A string is a sequence of tokens: words and the separator ","; a list   *)
(* or None is no string.                                                   *)
StrPasses(tokens) == [t |-> "str", v |-> tokens]
ListPasses(names) == [t |-> "list", v |-> names]
NonePasses == [t |-> "none", v |-> <<>>]

(* str.split(','): the pieces between separators, each a token sequence *)
RECURSIVE SplitAcc(_, _, _)
SplitAcc(str, cur, out) ==
    IF str = <<>> THEN Append(out, cur)
    ELSE IF Head(str) = "," THEN SplitAcc(Tail(str), <<>>, Append(out, cur))
    ELSE SplitAcc(Tail(str), Append(cur, Head(str)), out)
split(str) == SplitAcc(str, <<>>, <<>>)

(* As passes_mapper, with one more name registered *)
passes_mapper_Extended == {<<"fission">>, <<"padding">>, <<"split">>, <<"bogus">>}

(* Lines 433-437 *)
passes_mapper == {<<"fission">>, <<"padding">>, <<"split">>}

(* Lines 440-443: passes has no split attribute *)
NoSplit(passes) == passes.t # "str"

(* Line 444 *)
AllKnown(names) == \A n \in 1..Len(names) : names[n] \in passes_mapper

(* Lines 439-447: whether construction raises DLEException *)
Raises(passes) == NoSplit(passes) \/ ~AllKnown(split(passes.v))

-----------------------------------------------------------------------------
(* Inputs *)

PropertyChoices == {<<SEQUENTIAL>>, <<PARALLEL>>, <<PARALLEL, VECTOR>>}
OffsetChoices == {<<0, 0>>, <<-1, 1>>, <<0, 1>>, <<-1, 0>>}

(* An Iteration as the front end builds it: limits (0, dim.size, 1) *)
Loop(name, size, offsets, properties, body) ==
    Iteration(body, Dimension(name, size), <<Num(0), Num(size), Num(1)>>,
              offsets, properties, <<>>)

(* n leaf Expressions writing function fn *)
Exprs(n, fn) == Tup([m \in 1..n |-> Expression(m, fn, FALSE)])

(* Functions: name, trailing dimension and extent, SymbolicData or not,    *)
(* stack-resident or not.                                                  *)
Function(name, trailing, extent, symbolic, onstack) ==
    [name |-> name, last |-> trailing, extent |-> extent, rank |-> 1,
     symbolic |-> symbolic, onstack |-> onstack]
NoFunction == [name |-> "none"]

(* The perfect nest over the first Len(ds) dimensions; ds[m] = [size,      *)
(* offsets, properties].                                                   *)
RECURSIVE Nest(_, _, _)
Nest(ds, m, body) ==
    IF m = Len(ds) THEN Loop(DimNames[m], ds[m].size, ds[m].offsets, ds[m].properties, body)
    ELSE Loop(DimNames[m], ds[m].size, ds[m].offsets, ds[m].properties,
              <<Nest(ds, m + 1, body)>>)

LoopDesc(size, offsets, properties) ==
    [size |-> size, offsets |-> offsets, properties |-> properties]

DefaultEnv ==
    [i |-> 0, j |-> 0, k |-> 0, i_block |-> 0, j_block |-> 0, k_block |-> 0,
     i_block_size |-> 2, j_block_size |-> 2, k_block_size |-> 2]

DefaultParams ==
    [blockinner |-> FALSE, blockshape |-> NoBlockshape, openmp |-> FALSE,
     passes |-> [t |-> "none", v |-> <<>>],
     max_fission |-> MaxExprs + 1, min_fission |-> 2,
     collapse |-> 1, cores |-> 1, ntstores |-> FALSE, storefence |-> FALSE,
     simd_items |-> 4]

NewRewriter(kind) == [kind |-> kind, status |-> "new", passes |-> <<>>, pc |-> 1]
NoLast == [pass |-> "", ran |-> FALSE, before |-> NewState(<<>>)]

Start(nodes, p, e, kind) ==
    /\ input = nodes
    /\ state = NewState(nodes)
    /\ params = p
    /\ runtime = e
    /\ rw = NewRewriter(kind)
    /\ last = NoLast
    /\ log = <<>>

-----------------------------------------------------------------------------
(* Rewriters *)

Registry == {"fission", "padding", "split"}

(* DevitoRewriter._pipeline and DevitoSpeculativeRewriter._pipeline, as    *)
(* the sequence of the passes.                                             *)
Pipeline(kind, p) ==
    IF kind = "basic"
    THEN <<"denormals", "fission", "blocking", "simd">>
         \o (IF p.openmp THEN <<"openmp">> ELSE <<>>) \o <<"split">>
    ELSE <<"denormals", "fission", "padding", "blocking", "simd", "ntstores">>
         \o (IF p.openmp THEN <<"openmp">> ELSE <<>>) \o <<"split">>

Ready(pass) ==
    /\ rw.status = "ready"
    /\ rw.pc <= Len(rw.passes)
    /\ rw.passes[rw.pc] = pass

(* One pass through dle_pass: u is the update the pass returns. *)
Invoke(pass, u, warnings) ==
    /\ Ready(pass)
    /\ state' = dle_pass(state, pass, u)
    /\ last' = [pass |-> pass, ran |-> ~Skipped(state, pass), before |-> state]
    /\ log' = IF Skipped(state, pass) THEN log ELSE log \o warnings
    /\ rw' = [rw EXCEPT !.pc = @ + 1,
                        !.status = IF rw.pc = Len(rw.passes) THEN "done" ELSE "ready"]
    /\ UNCHANGED <<input, params, runtime>>

LoopBlocking ==
    Invoke("blocking", loop_blocking(state, params),
           BlockingWarnings(BlockedOf(state, params), params.blockshape))

AvoidDenormals == Invoke("denormals", avoid_denormals(state), <<>>)

LoopFission == Invoke("fission", loop_fission(state, params), <<>>)

Padding == Invoke("padding", padding(state, params), <<>>)

Simdize == Invoke("simd", simdize(state, params), <<>>)

NontemporalStores == Invoke("ntstores", nontemporal_stores(state, params), <<>>)

Ompize == Invoke("openmp", ompize(state, params), <<>>)

CreateElementalFunctions == Invoke("split", create_elemental_functions(state), <<>>)

(* DevitoRewriter / DevitoSpeculativeRewriter: construction never fails *)
Construct ==
    /\ rw.status = "new"
    /\ rw.kind \in {"basic", "speculative"}
    /\ rw' = [rw EXCEPT !.status = "ready", !.passes = Pipeline(rw.kind, params)]
    /\ UNCHANGED <<state, input, params, runtime, last, log>>

(* DevitoCustomRewriter.__init__ (lines 439-447) *)
ConstructCustom ==
    /\ rw.status = "new"
    /\ rw.kind = "custom"
    /\ rw' = IF Raises(params.passes)
             THEN [rw EXCEPT !.status = "DLEException"]
             ELSE LET names == split(params.passes.v)
                  IN [rw EXCEPT !.status = IF names = <<>> THEN "done" ELSE "ready",
                                !.passes = Tup([n \in 1..Len(names) |-> names[n][1]])]
    /\ UNCHANGED <<state, input, params, runtime, last, log>>

NextBasic ==
    \/ Construct
    \/ AvoidDenormals
    \/ LoopFission
    \/ LoopBlocking
    \/ Simdize
    \/ Ompize
    \/ CreateElementalFunctions

NextSpeculative ==
    \/ Construct
    \/ AvoidDenormals
    \/ LoopFission
    \/ Padding
    \/ LoopBlocking
    \/ Simdize
    \/ NontemporalStores
    \/ Ompize
    \/ CreateElementalFunctions

NextCustom ==
    \/ ConstructCustom
    \/ LoopFission
    \/ Padding
    \/ CreateElementalFunctions

NextNoOmp ==
    \/ Construct
    \/ AvoidDenormals
    \/ LoopFission
    \/ LoopBlocking
    \/ Simdize
    \/ CreateElementalFunctions

Next ==
    \/ Construct
    \/ ConstructCustom
    \/ AvoidDenormals
    \/ LoopFission
    \/ Padding
    \/ LoopBlocking
    \/ Simdize
    \/ NontemporalStores
    \/ Ompize
    \/ CreateElementalFunctions

-----------------------------------------------------------------------------
(* Initial states *)

U == Function("u", "k", 5, TRUE, FALSE)

(* Perfect nests of depth 1..3 over i, j, k, every loop sequential,        *)
(* parallel or parallel and vectorizable; the imperfect variant has an     *)
(* Expression next to the second loop.                                     *)
ShapedNest(props, imperfect) ==
    LET ds == Tup([m \in 1..Len(props) |-> LoopDesc(MaxSize, <<0, 0>>, props[m])])
        nest == Nest(ds, 1, Exprs(2, U))
    IN IF imperfect /\ Len(props) > 1
       THEN [nest EXCEPT !.nodes = @ \o <<Expression(3, U, FALSE)>>]
       ELSE nest

Shapes == UNION {[1..depth -> PropertyChoices] : depth \in 1..3}

BlockshapeChoices ==
    {NoBlockshape, ScalarBlockshape(0), ScalarBlockshape(2)}
    \cup {SeqBlockshape(Tup([n \in 1..len |-> n + 1])) : len \in 0..MaxShape}

(* DevitoRewriter on one nest: every shape, block shape and policy, and    *)
(* with OpenMP every core count and collapse threshold.                    *)
InitBasic ==
    \E props \in Shapes, imperfect \in BOOLEAN, blockinner \in BOOLEAN :
        \/ \E blockshape \in BlockshapeChoices :
              Start(<<ShapedNest(props, imperfect)>>,
                    [DefaultParams EXCEPT !.blockinner = blockinner,
                                          !.blockshape = blockshape],
                    DefaultEnv, "basic")
        \/ \E cores \in 1..MaxCores, collapse \in 1..(MaxCores + 1) :
              Start(<<ShapedNest(props, imperfect)>>,
                    [DefaultParams EXCEPT !.blockinner = blockinner,
                                          !.openmp = TRUE, !.cores = cores,
                                          !.collapse = collapse],
                    DefaultEnv, "basic")

(* DevitoRewriter without OpenMP on a nest of two parallel loops and a     *)
(* vectorizable one, and on a nest of one parallel loop and a vectorizable *)
(* one: every non-empty domain, pair of offsets and block size.            *)
InitCover ==
    \E si, sj \in 1..MaxSize, oi, oj \in OffsetChoices, bi, bj \in 1..MaxBlock,
       two \in BOOLEAN :
        /\ ~two => (sj = 1 /\ oj = <<0, 0>> /\ bj = 1)
        /\ si - oi[2] > 0 - oi[1]
        /\ sj - oj[2] > 0 - oj[1]
        /\ Start(<<Nest(IF two
                        THEN <<LoopDesc(si, oi, <<PARALLEL>>),
                               LoopDesc(sj, oj, <<PARALLEL>>),
                               LoopDesc(2, <<0, 0>>, <<PARALLEL, VECTOR>>)>>
                        ELSE <<LoopDesc(si, oi, <<PARALLEL>>),
                               LoopDesc(2, <<0, 0>>, <<PARALLEL, VECTOR>>)>>,
                        1, Exprs(1, U))>>,
                 DefaultParams,
                 [DefaultEnv EXCEPT !.i_block_size = bi, !.j_block_size = bj],
                 "basic")

(* DevitoSpeculativeRewriter on one nest, with every combination of the    *)
(* two capabilities.                                                       *)
InitSpeculative ==
    \E props \in Shapes, ntstores \in BOOLEAN, storefence \in BOOLEAN,
       openmp \in BOOLEAN :
        Start(<<ShapedNest(props, FALSE)>>,
              [DefaultParams EXCEPT !.ntstores = ntstores, !.storefence = storefence,
                                    !.openmp = openmp],
              DefaultEnv, "speculative")

(* The passes values handed to DevitoCustomRewriter *)
Tokens == {"fission", "padding", "split", "bogus", ","}
Strings == UNION {[1..n -> Tokens] : n \in 0..MaxTokens}
PassesChoices ==
    {StrPasses(str) : str \in Strings}
    \cup {NonePasses, ListPasses(<<"fission">>)}

(* The nest i, k with n Expressions in the innermost body, and possibly a  *)
(* node that is no Expression.                                             *)
FissionNest(n, other) ==
    Nest(<<LoopDesc(2, <<0, 0>>, <<PARALLEL>>),
           LoopDesc(5, <<0, 0>>, <<PARALLEL, VECTOR>>)>>, 1,
         Exprs(n, U) \o (IF other THEN <<Denormals>> ELSE <<>>))

(* DevitoCustomRewriter: every passes value on one nest, and every nest    *)
(* and threshold under the passes values that construct.                   *)
InitCustom ==
    \E passes \in PassesChoices :
        \/ Start(<<FissionNest(3, FALSE)>>,
                 [DefaultParams EXCEPT !.passes = passes, !.max_fission = 2],
                 DefaultEnv, "custom")
        \/ /\ ~Raises(passes)
           /\ \E n \in 1..MaxExprs, other \in BOOLEAN,
                 max_fission \in 1..MaxThreshold, min_fission \in 1..MaxThreshold :
                 Start(<<FissionNest(n, other)>>,
                       [DefaultParams EXCEPT !.passes = passes,
                                             !.max_fission = max_fission,
                                             !.min_fission = min_fission],
                       DefaultEnv, "custom")

(* Loops of size 3 holding one Expression or other loops *)
OneExpr(id) == <<Expression(id, U, FALSE)>>
Over(name, properties, body) == Loop(name, 3, <<0, 0>>, properties, body)

(* Two nests i, j in two top-level trees *)
TwoTrees(pa, p1, pb, p2) ==
    <<Over("i", pa, <<Over("j", p1, OneExpr(1))>>),
      Over("i", pb, <<Over("j", p2, OneExpr(2))>>)>>

(* One tree: a loop i holding a loop j and then a loop k *)
TwoNests(pa, p1, p2) ==
    <<Over("i", pa, <<Over("j", p1, OneExpr(1)), Over("k", p2, OneExpr(2))>>)>>

(* DevitoRewriter on several nests, with and without OpenMP *)
InitMulti ==
    \E pa, p1, pb, p2 \in PropertyChoices, blockinner \in BOOLEAN, openmp \in BOOLEAN :
        \/ Start(TwoTrees(pa, p1, pb, p2),
                 [DefaultParams EXCEPT !.blockinner = blockinner, !.openmp = openmp,
                                       !.cores = MaxCores],
                 DefaultEnv, "basic")
        \/ /\ pb = pa
           /\ Start(TwoNests(pa, p1, p2),
                    [DefaultParams EXCEPT !.blockinner = blockinner, !.openmp = openmp,
                                          !.cores = MaxCores],
                    DefaultEnv, "basic")

Init == InitSpeculative \/ InitCustom

Spec == Init /\ [][Next]_vars
SpecBasic == InitBasic /\ [][NextBasic]_vars
SpecCover == InitCover /\ [][NextNoOmp]_vars
SpecSpeculative == InitSpeculative /\ [][NextSpeculative]_vars
SpecCustom == InitCustom /\ [][NextCustom]_vars
SpecMulti == InitMulti /\ [][NextBasic]_vars

-----------------------------------------------------------------------------
(* Properties *)

AllTrees(nodes) ==
    Flatten([t \in 1..Len(nodes) |-> retrieve_iteration_tree(nodes[t], <<t>>)])

(* The nests _loop_blocking blocks in nodes: for each, the selected        *)
(* Iterations (paths), the first being the root that is replaced.          *)
BlockedNests(nodes, p) ==
    LET trees == AllTrees(nodes)
        sel(tree) == BlockableIterations(nodes, tree, ~p.blockinner)
    IN {sel(trees[n]) : n \in {m \in 1..Len(trees) :
            /\ sel(trees[m]) # <<>>
            /\ IsPerfectIteration(NodeAt(nodes, sel(trees[m])[1]))}}

BlockingRan == last.pass = "blocking" /\ last.ran

(* C1: for every blocked nest and every choice of offsets, domain sizes   *)
(* and block sizes, the blocked tree and the remainder trees together      *)
(* execute every point of the original ranges exactly once and no other    *)
(* point.                                                                  *)
C1_Coverage ==
    BlockingRan =>
        \A its \in BlockedNests(last.before.nodes, params) :
            LET orig == Exec(NodeAt(last.before.nodes, its[1]), runtime)
                new == Exec(NodeAt(state.nodes, its[1]), runtime)
            IN NoDuplicates(new) /\ Range(new) = Range(orig)

(* Coverage where it does hold: every selected loop has offsets (-o, o) *)
SymmetricOffsets(nodes, its) ==
    \A n \in 1..Len(its) :
        NodeAt(nodes, its[n]).offsets[1] = 0 - NodeAt(nodes, its[n]).offsets[2]

CoverageSymmetric ==
    BlockingRan =>
        \A its \in BlockedNests(last.before.nodes, params) :
            SymmetricOffsets(last.before.nodes, its) =>
                LET orig == Exec(NodeAt(last.before.nodes, its[1]), runtime)
                    new == Exec(NodeAt(state.nodes, its[1]), runtime)
                IN NoDuplicates(new) /\ Range(new) = Range(orig)

-----------------------------------------------------------------------------
(* The shape of the trees blocking builds, read off the output *)

BlockNames == {BlockName[d] : d \in DOMAIN BlockName}

(* The role of an Iteration of a blocked or remainder tree *)
Role(o) ==
    IF o.k # "Iteration" THEN "body"
    ELSE IF o.dim.name \in BlockNames THEN "inter"
    ELSE IF o.limits[1].e = "sym" THEN "intra"
    ELSE IF o.limits[1].e = "sub" THEN "rem"
    ELSE "body"

(* The loops blocking put on top of the body: <<role, dimension>> from the *)
(* root down, an inter-block loop named by the dimension it blocks.        *)
RECURSIVE Signature(_)
Signature(o) ==
    IF Role(o) = "body" THEN <<>>
    ELSE <<[role |-> Role(o),
            dim |-> IF Role(o) = "inter"
                    THEN CHOOSE d \in DOMAIN BlockName : BlockName[d] = o.dim.name
                    ELSE o.dim.name]>>
         \o (IF Len(o.nodes) = 1 THEN Signature(o.nodes[1]) ELSE <<>>)

(* What lies below those loops *)
RECURSIVE Below(_)
Below(o) ==
    IF Len(o.nodes) = 1 /\ Role(o.nodes[1]) # "body" THEN Below(o.nodes[1]) ELSE o.nodes

(* The dimensions a tree handles by a remainder loop *)
RemainderDims(o) ==
    {Signature(o)[n].dim : n \in {m \in 1..Len(Signature(o)) : Signature(o)[m].role = "rem"}}

(* The signature a tree must have for the selected dimensions ds and the   *)
(* subset c of them.                                                       *)
ExpectedSignature(ds, c) ==
    SelectIdx(Tup([n \in 1..Len(ds) |-> [role |-> "inter", dim |-> ds[n]]]),
              LAMBDA x : x.dim \notin c)
    \o Tup([n \in 1..Len(ds) |->
              [role |-> IF ds[n] \in c THEN "rem" ELSE "intra", dim |-> ds[n]]])

Pow2(n) == Cardinality(SUBSET (1..n))

(* Positions of the dimensions of c in ds, ascending *)
PositionsOf(ds, c) == SelectIdx(Tup([n \in 1..Len(ds) |-> n]), LAMBDA n : ds[n] \in c)

RECURSIVE LexLess(_, _)
LexLess(a, b) ==
    /\ a # <<>> /\ b # <<>>
    /\ \/ Head(a) < Head(b)
       \/ Head(a) = Head(b) /\ LexLess(Tail(a), Tail(b))

(* Subset c comes before subset d: smaller, or as large and earlier by position *)
Before(ds, c, d) ==
    \/ Cardinality(c) < Cardinality(d)
    \/ Cardinality(c) = Cardinality(d) /\ LexLess(PositionsOf(ds, c), PositionsOf(ds, d))

DimsOf(nodes, its) == Tup([n \in 1..Len(its) |-> NodeAt(nodes, its[n]).dim.name])

(* C2: the root of a blocked nest with k selected dimensions is replaced   *)
(* by 2^k trees: the blocked tree (inter-block loops, intra-block loops,   *)
(* body), then one remainder tree per non-empty subset of the selected     *)
(* dimensions, by size and then position, a dimension of the subset        *)
(* contributing its remainder loop and any other its inter-block and       *)
(* intra-block loops.                                                      *)
C2_TreeSequence ==
    BlockingRan =>
        \A its \in BlockedNests(last.before.nodes, params) :
            LET ds == DimsOf(last.before.nodes, its)
                body == NodeAt(last.before.nodes, its[Len(its)]).nodes
                out == NodeAt(state.nodes, its[1])
            IN /\ out.k = "List"
               /\ Len(out.body) = 1 + (Pow2(Len(its)) - 1)
               /\ Signature(out.body[1]) = ExpectedSignature(ds, {})
               /\ \A m \in 1..Len(out.body) :
                    /\ Signature(out.body[m]) = ExpectedSignature(ds, RemainderDims(out.body[m]))
                    /\ Below(out.body[m]) = body
                    /\ m > 1 => RemainderDims(out.body[m]) # {}
               /\ \A m, n \in 2..Len(out.body) :
                    m < n => Before(ds, RemainderDims(out.body[m]), RemainderDims(out.body[n]))

(* The nest i, j, k of parallel loops, k vectorizable *)
IsScenario(nodes, t) ==
    /\ nodes[t].k = "Iteration" /\ nodes[t].properties = <<PARALLEL>>
    /\ Len(nodes[t].nodes) = 1 /\ nodes[t].nodes[1].k = "Iteration"
    /\ nodes[t].nodes[1].properties = <<PARALLEL>>
    /\ Len(nodes[t].nodes[1].nodes) = 1 /\ nodes[t].nodes[1].nodes[1].k = "Iteration"
    /\ nodes[t].nodes[1].nodes[1].properties = <<PARALLEL, VECTOR>>

(* C2, the scenario: with the innermost loop excluded, i and j alone are   *)
(* blocked and the remainder trees are those of {i}, {j}, {i, j}.          *)
C2_Scenario ==
    (BlockingRan /\ ~params.blockinner /\ IsScenario(last.before.nodes, 2)) =>
        /\ Len(state.nodes[2].body) = 4
        /\ Tup([m \in 1..3 |-> RemainderDims(state.nodes[2].body[m + 1])])
             = <<{"i"}, {"j"}, {"i", "j"}>>
        /\ Tup([n \in 1..Len(state.arguments) |-> state.arguments[n].dim.name])
             = <<"i_block", "j_block">>

C2_Structure == C2_TreeSequence /\ C2_Scenario

C2_Witness ==
    /\ BlockingRan /\ ~params.blockinner /\ IsScenario(last.before.nodes, 2)
    /\ state.nodes[2].k = "List"
    /\ Len(state.nodes[2].body) = 4

-----------------------------------------------------------------------------
(* The number of Iterations at or below o that equal x *)
Copies(o, x) ==
    LET ps == FindIn(o, <<>>, "Iteration")
    IN Cardinality({n \in 1..Len(ps) : At(o, ps[n]) = x})

(* Every Iteration at or below o over dimension d is x *)
OnlyAs(o, d, x) ==
    LET ps == FindIn(o, <<>>, "Iteration")
    IN \A n \in 1..Len(ps) : At(o, ps[n]).dim.name = d => At(o, ps[n]) = x

(* The innermost loop of the tree is its only vectorizable one *)
OnlyInnermostVectorizable(nodes, tree) ==
    /\ is_Vectorizable(NodeAt(nodes, tree[Len(tree)]))
    /\ \A m \in 1..(Len(tree) - 1) : ~is_Vectorizable(NodeAt(nodes, tree[m]))

(* C4: under the exclude-innermost policy, an innermost loop that is the   *)
(* only vectorizable one of its nest is left as it was: it occurs once,    *)
(* unchanged, in the blocked tree and in every remainder tree (or the nest *)
(* is not blocked at all), and no block dimension or runtime argument is   *)
(* created for it.                                                         *)
C4_InnermostUntouched ==
    (BlockingRan /\ ~params.blockinner) =>
        LET before == last.before.nodes
            trees == AllTrees(before)
            nests == BlockedNests(before, params)
        IN \A n \in 1..Len(trees) :
            LET tree == trees[n]
                q == tree[Len(tree)]
                inner == NodeAt(before, q)
            IN OnlyInnermostVectorizable(before, tree) =>
                /\ \A a \in 1..Len(state.arguments) :
                        /\ state.arguments[a].iteration # q
                        /\ state.arguments[a].dim.name # BlockName[inner.dim.name]
                /\ \A its \in nests :
                        Has(tree, its[1]) =>
                            LET out == NodeAt(state.nodes, its[1])
                            IN \A m \in 1..Len(out.body) :
                                /\ Copies(out.body[m], inner) = 1
                                /\ OnlyAs(out.body[m], inner.dim.name, inner)
                /\ (~\E its \in nests : Has(tree, its[1])) =>
                        NodeAt(state.nodes, q) = inner

C4_Witness ==
    /\ BlockingRan /\ ~params.blockinner /\ IsScenario(last.before.nodes, 2)
    /\ state.nodes[2].k = "List"
    /\ \A m \in 1..Len(state.nodes[2].body) :
          Copies(state.nodes[2].body[m], last.before.nodes[2].nodes[1].nodes[1]) = 1

(* The number of Iterations _loop_blocking blocks *)
NBlocked ==
    Cardinality(UNION {Range(its) : its \in BlockedNests(last.before.nodes, params)})

(* The caller gave a non-empty sequence whose length is not the number of  *)
(* blocked loops, and at least one loop is blocked.                        *)
ShapeMismatch ==
    /\ BlockingRan
    /\ params.blockshape.t = "seq" /\ params.blockshape.v # <<>>
    /\ NBlocked > 0
    /\ Len(params.blockshape.v) # NBlocked

(* One argument per blocked loop; those with an entry carry it, in order,  *)
(* and the others carry `missing`.                                         *)
ArgumentsCarry(missing) ==
    /\ Len(state.arguments) = NBlocked
    /\ \A n \in 1..Len(state.arguments) :
          state.arguments[n].value =
              IF n <= Len(params.blockshape.v)
              THEN IntValue(params.blockshape.v[n]) ELSE missing

Diagnosed ==
    log = IF Len(params.blockshape.v) > NBlocked THEN <<MoreEntries>> ELSE <<FewerEntries>>

(* C9 as claimed: on a mismatch a diagnostic is emitted, extra entries are *)
(* dropped and a blocked dimension without an entry carries the heuristic  *)
(* block size.                                                             *)
C9_MissingGetHeuristic ==
    ShapeMismatch => (Diagnosed /\ ArgumentsCarry(HeuristicValue))

(* C9 as amended: on a mismatch a diagnostic is emitted, extra entries are *)
(* dropped and a blocked dimension without an entry carries no block size  *)
(* (None).                                                                 *)
C9_MissingGetNone ==
    ShapeMismatch => (Diagnosed /\ ArgumentsCarry(NoneValue))

C9_Witness ==
    /\ ShapeMismatch
    /\ Len(params.blockshape.v) < NBlocked
    /\ state.arguments[NBlocked].value = NoneValue

-----------------------------------------------------------------------------
OmpRan == last.pass = "openmp" /\ last.ran

(* A candidate of _ompize: parallel and not vectorizable *)
IsCandidate(nodes, q) ==
    /\ Has(NodeAt(nodes, q).properties, PARALLEL)
    /\ ~Has(NodeAt(nodes, q).properties, VECTOR)

HasCandidate(nodes, tree) == \E a \in 1..Len(tree) : IsCandidate(nodes, tree[a])

(* The position of the first candidate of a tree, and the number of        *)
(* consecutive candidates from there.                                      *)
FirstCandidate(nodes, tree) ==
    CHOOSE a \in 1..Len(tree) :
        /\ IsCandidate(nodes, tree[a])
        /\ \A b \in 1..(a - 1) : ~IsCandidate(nodes, tree[b])
NCandidates(nodes, tree) ==
    LET a == FirstCandidate(nodes, tree)
    IN Cardinality({m \in a..Len(tree) : \A b \in a..m : IsCandidate(nodes, tree[b])})

(* The paths of the selected roots of nodes, in order of selection *)
SelectedRoots(nodes) ==
    LET trees == SelectIdx(AllTrees(nodes), LAMBDA tree : HasCandidate(nodes, tree))
        roots == Tup([n \in 1..Len(trees) |-> trees[n][FirstCandidate(nodes, trees[n])]])
    IN SelectIdx(Tup([n \in 1..Len(roots) |-> [n |-> n, q |-> roots[n]]]),
                 LAMBDA x : \A m \in 1..(x.n - 1) : roots[m] # x.q)

(* The parallel regions of nodes *)
Regions(nodes) ==
    LET ps == FindNodes("Block", nodes)
    IN {NodeAt(nodes, ps[n]) : n \in 1..Len(ps)}

Pragmaless(o) == IF o.k = "Iteration" THEN [o EXCEPT !.pragmas = <<>>] ELSE o

InRegion(nodes, q) ==
    \E n \in 1..Len(q) : NodeAt(nodes, SubSeq(q, 1, n)).k = "Block"

(* Node x occurs in nodes outside every parallel region *)
OccursOutside(nodes, x) ==
    LET ps == FindNodes("Iteration", nodes)
    IN \E n \in 1..Len(ps) :
          Pragmaless(NodeAt(nodes, ps[n])) = Pragmaless(x) /\ ~InRegion(nodes, ps[n])

(* C10 as claimed: a region holds only denormal nodes and roots that are   *)
(* no remainder loops, and every selected remainder root is still in the   *)
(* tree, outside the region.                                               *)
C10_RemainderOutside ==
    OmpRan =>
        /\ \A b \in Regions(state.nodes) :
              \A x \in 1..Len(b.body) :
                  \/ b.body[x].k = "Denormals"
                  \/ b.body[x].k = "Iteration" /\ ~is_Remainder(b.body[x])
        /\ LET roots == SelectedRoots(last.before.nodes)
           IN \A n \in 1..Len(roots) :
                is_Remainder(NodeAt(last.before.nodes, roots[n].q)) =>
                    OccursOutside(state.nodes, NodeAt(last.before.nodes, roots[n].q))

(* The body the region of top-level tree t must have: the denormal nodes,  *)
(* then every selected root of t, remainder or not.                        *)
ExpectedRegion(nodes, t) ==
    LET ds == FindNodes("Denormals", nodes)
        roots == SelectIdx(SelectedRoots(nodes), LAMBDA x : Head(x.q) = t)
    IN Tup([n \in 1..Len(ds) |-> NodeAt(nodes, ds[n])])
       \o Tup([n \in 1..Len(roots) |-> Pragmaless(NodeAt(nodes, roots[n].q))])

HasPlainRoot(nodes, t) ==
    LET roots == SelectedRoots(nodes)
    IN \E n \in 1..Len(roots) :
          Head(roots[n].q) = t /\ ~is_Remainder(NodeAt(nodes, roots[n].q))

(* C10 as amended: the region of a tree holds the denormal nodes and then  *)
(* every selected root of the tree, remainder roots included, and no       *)
(* selected remainder root is left in the tree outside the region.         *)
C10_RemainderInside ==
    OmpRan =>
        LET before == last.before.nodes
            roots == SelectedRoots(before)
        IN /\ \A t \in 1..Len(before) :
                HasPlainRoot(before, t) =>
                    \E b \in Regions(state.nodes) :
                        Tup([x \in 1..Len(b.body) |-> Pragmaless(b.body[x])])
                            = ExpectedRegion(before, t)
           /\ \A n \in 1..Len(roots) :
                is_Remainder(NodeAt(before, roots[n].q)) =>
                    ~OccursOutside(state.nodes, NodeAt(before, roots[n].q))

C10_Witness ==
    /\ OmpRan
    /\ \E b \in Regions(state.nodes) :
         \E x \in 1..Len(b.body) :
            b.body[x].k = "Iteration" /\ is_Remainder(b.body[x])

-----------------------------------------------------------------------------
(* C3: a pass invoked a second time through the pipeline returns the State *)
(* unchanged: node trees, elemental functions, arguments and flags after   *)
(* the second invocation equal those before it.                            *)
C3_SecondInvocationSkipped ==
    (/\ last.pass # ""
     /\ \E n \in 1..(rw.pc - 2) : rw.passes[n] = last.pass)
        => state = last.before

-----------------------------------------------------------------------------
(* A well-formed passes value: a string of registry names separated by     *)
(* single commas.                                                          *)
WellFormed(passes) ==
    /\ passes.t = "str"
    /\ Len(passes.v) % 2 = 1
    /\ \A n \in 1..Len(passes.v) :
          IF n % 2 = 1 THEN passes.v[n] \in Registry ELSE passes.v[n] = ","

(* C6: construction of the custom rewriter raises DLEException exactly     *)
(* when passes is no string or names a pass outside the registry, and then *)
(* no pass has executed and the State is the one of the input trees.       *)
C6_ConstructionFails ==
    /\ (rw.kind = "custom" /\ rw.status # "new")
          => (rw.status = "DLEException" <=> ~WellFormed(params.passes))
    /\ (rw.kind = "custom" /\ ~WellFormed(params.passes))
          => /\ rw.status \in {"new", "DLEException"}
             /\ state = NewState(input)
             /\ last = NoLast
             /\ log = <<>>

C6_Witness ==
    /\ rw.status = "DLEException"
    /\ params.passes = StrPasses(<<"fission", ",", "bogus">>)

-----------------------------------------------------------------------------
FissionRan == last.pass = "fission" /\ last.ran

(* What identifies a leaf expression: its statement and its function *)
Leaf(e) == [id |-> e.id, fn |-> e.fn]
Leaves(nodes) == Tup([n \in 1..Len(nodes) |-> Leaf(nodes[n])])

(* The innermost loops _loop_fission looks at *)
Innermost(nodes) ==
    LET trees == SelectIdx(AllTrees(nodes), LAMBDA tree : Len(tree) > 1)
    IN {trees[n][Len(trees[n])] : n \in 1..Len(trees)}

NExpressions(o) == Cardinality({n \in 1..Len(o.nodes) : o.nodes[n].k = "Expression"})

(* C8: a fissioned innermost loop becomes sub-loops of at most the group   *)
(* size of leaf expressions each, holding together the expressions of the  *)
(* original body in the original order; a loop with fewer expressions than *)
(* the minimum count, or with a node that is no expression, is unchanged.  *)
C8_FissionGroups ==
    FissionRan =>
        \A q \in Innermost(last.before.nodes) :
            LET candidate == NodeAt(last.before.nodes, q)
                after == NodeAt(state.nodes, q)
            IN /\ (\/ NExpressions(candidate) < params.max_fission
                   \/ NExpressions(candidate) # Len(candidate.nodes))
                      => after = candidate
               /\ after # candidate =>
                    /\ after.k = "List"
                    /\ \A n \in 1..Len(after.body) :
                          /\ after.body[n].k = "Iteration"
                          /\ Len(after.body[n].nodes) \in 1..params.min_fission
                          /\ NExpressions(after.body[n]) = Len(after.body[n].nodes)
                    /\ Flatten(Tup([n \in 1..Len(after.body) |->
                                       Leaves(after.body[n].nodes)]))
                          = Leaves(candidate.nodes)

C8_Witness ==
    /\ FissionRan
    /\ \E q \in Innermost(last.before.nodes) :
          LET after == NodeAt(state.nodes, q)
          IN /\ after.k = "List"
             /\ Len(after.body) >= 2
             /\ Len(after.body[1].nodes) = 2
             /\ Len(after.body[Len(after.body)].nodes) = 1

-----------------------------------------------------------------------------
NtStoresInvoked == last.pass = "ntstores"

(* C7: without the non-cached-store pragma or without the store fence      *)
(* _nontemporal_stores leaves node trees and elemental functions as they   *)
(* were and records no flag; the flag is recorded only with both.          *)
C7_NtStoresNoOp ==
    /\ (NtStoresInvoked /\ ~(params.ntstores /\ params.storefence))
          => /\ state.nodes = last.before.nodes
             /\ state.elemental_functions = last.before.elemental_functions
             /\ "ntstores" \notin state.flags
    /\ "ntstores" \in state.flags => params.ntstores /\ params.storefence

C7_Witness ==
    /\ NtStoresInvoked
    /\ params.ntstores
    /\ ~params.storefence
    /\ LET ps == FindNodes("Iteration", state.nodes)
       IN \E n \in 1..Len(ps) : is_Vectorizable(NodeAt(state.nodes, ps[n]))

-----------------------------------------------------------------------------
(* The original dimensions of the Iterations _loop_blocking blocks *)
BlockedDims ==
    {NodeAt(last.before.nodes, q).dim.name :
        q \in UNION {Range(its) : its \in BlockedNests(last.before.nodes, params)}}

ArgumentsOf(d) ==
    {n \in 1..Len(state.arguments) : state.arguments[n].dim.name = BlockName[d]}

(* C11: one run of _loop_blocking emits exactly one argument per blocked   *)
(* original dimension, however many loops iterate it, and returns the flag *)
(* and a non-empty argument list exactly when a nest was blocked; with no  *)
(* nest blocked the trees come back with no argument and no flag.          *)
C11_OneArgumentPerDimension ==
    BlockingRan =>
        /\ \A d \in BlockedDims : Cardinality(ArgumentsOf(d)) = 1
        /\ Len(state.arguments) = Cardinality(BlockedDims)
        /\ ("blocking" \in state.flags /\ state.arguments # <<>>)
              <=> BlockedNests(last.before.nodes, params) # {}
        /\ BlockedNests(last.before.nodes, params) = {} =>
              /\ state.arguments = <<>>
              /\ "blocking" \notin state.flags
              /\ state.nodes = last.before.nodes

(* The flag and the arguments go with a blocked nest, one argument per     *)
(* blocked loop.                                                           *)
ArgumentPerLoop ==
    BlockingRan =>
        /\ Len(state.arguments) = NBlocked
        /\ ("blocking" \in state.flags /\ state.arguments # <<>>)
              <=> BlockedNests(last.before.nodes, params) # {}
        /\ BlockedNests(last.before.nodes, params) = {} =>
              /\ state.arguments = <<>>
              /\ "blocking" \notin state.flags
              /\ state.nodes = last.before.nodes

-----------------------------------------------------------------------------
(* What _loop_blocking selects: parallel loops, less the vectorizable ones *)
(* under the exclusion policy.                                             *)
IsSelected(nodes, q) ==
    /\ is_Parallel(NodeAt(nodes, q))
    /\ (~params.blockinner => ~is_Vectorizable(NodeAt(nodes, q)))

(* Loop i, with its limits and offsets, is somewhere in tree o *)
StillPresent(o, i) ==
    LET ps == FindNodes("Iteration", <<o>>)
    IN \E n \in 1..Len(ps) :
          /\ NodeAt(<<o>>, ps[n]).dim = i.dim
          /\ NodeAt(<<o>>, ps[n]).limits = i.limits
          /\ NodeAt(<<o>>, ps[n]).offsets = i.offsets

(* C12: the loops selected in a blocked nest are consecutive levels, and   *)
(* every level of the nest from the selected root down is either selected  *)
(* or still present, with its limits, in the blocked tree and in every     *)
(* remainder tree.                                                         *)
C12_ConsecutiveLevels ==
    BlockingRan =>
        LET before == last.before.nodes
            trees == AllTrees(before)
        IN \A t \in 1..Len(trees) :
            LET its == SelectIdx(trees[t], LAMBDA q : IsSelected(before, q))
            IN (its # <<>> /\ IsPerfectIteration(NodeAt(before, its[1]))) =>
                /\ \A n \in 1..(Len(its) - 1) : Len(its[n + 1]) = Len(its[n]) + 1
                /\ \A m \in 1..Len(trees[t]) :
                      LET q == trees[t][m]
                          out == NodeAt(state.nodes, its[1])
                      IN Len(q) >= Len(its[1]) =>
                           \/ \E n \in 1..Len(its) : its[n] = q
                           \/ /\ out.k = "List"
                              /\ \A x \in 1..Len(out.body) :
                                    StillPresent(out.body[x], NodeAt(before, q))

(* The same where the selected loops are consecutive levels that reach the *)
(* innermost selected loop.                                                *)
C12_WhereConsecutive ==
    BlockingRan =>
        LET before == last.before.nodes
            trees == AllTrees(before)
        IN \A t \in 1..Len(trees) :
            LET its == SelectIdx(trees[t], LAMBDA q : IsSelected(before, q))
            IN (/\ its # <<>>
                /\ IsPerfectIteration(NodeAt(before, its[1]))
                /\ \A n \in 1..(Len(its) - 1) : Len(its[n + 1]) = Len(its[n]) + 1) =>
                \A m \in 1..Len(trees[t]) :
                    LET q == trees[t][m]
                        out == NodeAt(state.nodes, its[1])
                    IN Len(q) >= Len(its[1]) =>
                         \/ \E n \in 1..Len(its) : its[n] = q
                         \/ /\ out.k = "List"
                            /\ \A x \in 1..Len(out.body) :
                                  StillPresent(out.body[x], NodeAt(before, q))

-----------------------------------------------------------------------------
(* The statements below node o *)
ExprIds(o) ==
    LET ps == FindNodes("Expression", <<o>>)
    IN {NodeAt(<<o>>, ps[n]).id : n \in 1..Len(ps)}

(* Top-level tree t holds no candidate loop *)
NoCandidate(nodes, t) ==
    LET trees == retrieve_iteration_tree(nodes[t], <<t>>)
    IN \A n \in 1..Len(trees) : ~HasCandidate(nodes, trees[n])

(* Top-level tree t of the input of _ompize is in its output: as it was,   *)
(* or as a tree holding its statements.                                    *)
InOutput(t) ==
    LET o == last.before.nodes[t]
    IN \E n \in 1..Len(state.nodes) :
          IF ExprIds(o) = {} THEN state.nodes[n] = o
          ELSE ExprIds(o) \subseteq ExprIds(state.nodes[n])

(* C13 as claimed: a top-level tree without a candidate loop is absent     *)
(* from the output of _ompize, and a tree with a qualifying nest that is   *)
(* no remainder is present.                                                *)
C13_DroppedWithoutCandidate ==
    OmpRan =>
        \A t \in 1..Len(last.before.nodes) :
            /\ NoCandidate(last.before.nodes, t) => ~InOutput(t)
            /\ HasPlainRoot(last.before.nodes, t) => InOutput(t)

(* The top-level trees that are no denormals nodes, in order *)
KeptTrees(nodes) ==
    SelectIdx(Tup([t \in 1..Len(nodes) |-> t]), LAMBDA t : nodes[t].k # "Denormals")

(* C13 as amended: the output holds, in order, every top-level tree that   *)
(* is no denormals node: unchanged when it has no candidate loop, and with *)
(* a parallel region and all its statements when it has a qualifying nest  *)
(* that is no remainder; a top-level denormals node is dropped.            *)
C13_KeptWithoutCandidate ==
    OmpRan =>
        LET before == last.before.nodes
            kept == KeptTrees(before)
        IN /\ Len(state.nodes) = Len(kept)
           /\ \A n \in 1..Len(kept) :
                /\ NoCandidate(before, kept[n]) => state.nodes[n] = before[kept[n]]
                /\ HasPlainRoot(before, kept[n]) =>
                     /\ ExprIds(before[kept[n]]) \subseteq ExprIds(state.nodes[n])
                     /\ FindNodes("Block", <<state.nodes[n]>>) # <<>>

C13_Witness ==
    /\ OmpRan
    /\ \E t, u \in 1..Len(last.before.nodes) :
          /\ last.before.nodes[t].k = "Iteration"
          /\ NoCandidate(last.before.nodes, t)
          /\ InOutput(t)
          /\ HasPlainRoot(last.before.nodes, u)
    /\ \E t \in 1..Len(last.before.nodes) : last.before.nodes[t].k = "Denormals"

-----------------------------------------------------------------------------
(* How many Iterations of nodes are loop x, pragmas aside *)
Occurrences(nodes, x) ==
    LET ps == FindNodes("Iteration", nodes)
    IN Cardinality({n \in 1..Len(ps) : Pragmaless(NodeAt(nodes, ps[n])) = Pragmaless(x)})

(* C14: every selected root of the input of _ompize occurs in its output   *)
(* as often as in the input, and the output executes the statements of the *)
(* input, each point once.                                                 *)
C14_EachLoopOnce ==
    OmpRan =>
        LET before == last.before.nodes
            roots == SelectedRoots(before)
        IN /\ \A n \in 1..Len(roots) :
                Occurrences(state.nodes, NodeAt(before, roots[n].q))
                    = Occurrences(before, NodeAt(before, roots[n].q))
           /\ NoDuplicates(ExecSeq(state.nodes, runtime))
           /\ Range(ExecSeq(state.nodes, runtime)) = Range(ExecSeq(before, runtime))

(* The top-level trees with two or more selected roots that are no         *)
(* remainder loops.                                                        *)
SeveralPlainRoots(nodes, t) ==
    LET roots == SelectedRoots(nodes)
    IN Cardinality({n \in 1..Len(roots) :
            /\ Head(roots[n].q) = t
            /\ ~is_Remainder(NodeAt(nodes, roots[n].q))}) >= 2

(* The same where no tree has two selected roots that are no remainder *)
C14_OnePlainRoot ==
    (OmpRan /\ \A t \in 1..Len(last.before.nodes) :
                  ~SeveralPlainRoots(last.before.nodes, t))
        => C14_EachLoopOnce

====
